---------------------------- MODULE Spec2Model ----------------------------
(***************************************************************************)
(* Composite pipeline metadata DAO of go-mysql-transfer: a per-node bbolt  *)
(* cache (bucket "pipeline") kept consistent with a cluster-wide remote    *)
(* PipelineDao by cascade writes (CascadeInsert / CascadeUpdate /          *)
(* CascadeDelete) and by reconciliation (refreshAll / refreshOne), and     *)
(* read by the scans GetByParam / SelectList.  Initialize opens the bbolt  *)
(* file and selects the coordinator backend of the node; the file's other  *)
(* buckets and the coordinator hold the pipelines' position and run state. *)
(*                                                                         *)
(* Each goroutine that calls into the DAO is a process p running on node   *)
(* NodeOf(p).  A call is cut at the points where it touches shared state:  *)
(* a remote coordinator call, a bbolt View, a bbolt Update commit.         *)
(***************************************************************************)
EXTENDS Integers, Sequences, FiniteSets, TLC

\* ---------------------------------------------------------------- bounds
NumNodes == 2
NumProcs == 3
MaxId == 2
MaxVer == 2
MaxOps == 3

Nodes == 1..NumNodes
Procs == 1..NumProcs
Ids == 1..MaxId
Versions == 0..MaxVer
Names == {"p1", "p1x"}
\* a nil *po.PipelineInfo
Nil == [nil |-> TRUE]

\* a nil []byte: what bbolt returns for a key that is not in the bucket
NoData == <<>>

\* goroutine p runs in the process of node NodeOf(p)
NodeOf(p) == ((p - 1) % NumNodes) + 1

\* ------------------------------------------------------------- entities
\* po.PipelineInfo, cut to the fields the DAO's write paths read
Entity == [id : Ids, name : Names, dataVersion : Versions]

\* po.MetadataVersion
MetadataVersion == [id : Ids, version : Versions]

\* dataVersion of a freshly created entity (proto3 zero value)
NewVersions == {0}

\* proto.Marshal: the wire form of an entity, tagged so that bytes and
\* entities are different values
Marshal(e) == <<"pb", e.id, e.name, e.dataVersion>>

\* stored bytes that proto.Unmarshal rejects
Corrupt == <<"garbage">>

Malformed(b) == b # NoData /\ b[1] # "pb"

\* proto.Unmarshal of well-formed bytes
Unmarshal(b) == [id |-> b[2], name |-> b[3], dataVersion |-> b[4]]

\* marshalId: the 8-byte big-endian key of an id (ids below 2^31 here, so
\* the four high bytes are 0)
marshalId(id) ==
  [i \in 1..8 |-> IF i <= 4 THEN 0 ELSE (id \div (256 ^ (8 - i))) % 256]

\* byteutils.BytesToUint64
BytesToUint64(k) == k[5] * 16777216 + k[6] * 65536 + k[7] * 256 + k[8]

Keys == {marshalId(i) : i \in Ids}

\* bbolt's key order: bytewise lexicographic
KeyLess(a, b) ==
  \E i \in 1..8 : a[i] < b[i] /\ \A j \in 1..(i - 1) : a[j] = b[j]

\* an empty pipeline bucket, as initializeBoltDB creates it
EmptyBucket == [k \in Keys |-> NoData]

\* tx.Bucket(_pipelineBucket).Put / Delete / Get
BucketPut(b, id, data) == [b EXCEPT ![marshalId(id)] = data]
BucketDelete(b, id) == [b EXCEPT ![marshalId(id)] = NoData]
BucketGet(b, id) == b[marshalId(id)]

\* cursor.First() .. cursor.Next(): the keys present, ascending
RECURSIVE CursorKeys(_)
CursorKeys(S) ==
  IF S = {} THEN <<>>
  ELSE LET m == CHOOSE k \in S : \A j \in S : j = k \/ KeyLess(k, j)
       IN <<m>> \o CursorKeys(S \ {m})

\* CompositePipelineDao.Get on a bucket: the entity, or Nil with an error
\* (NotFound for a missing key, the unmarshal error for malformed bytes)
LocalGet(b, id) ==
  LET data == BucketGet(b, id)
  IN IF data = NoData THEN [entity |-> Nil, err |-> "NotFound"]
     ELSE IF Malformed(data) THEN [entity |-> Nil, err |-> "Unmarshal"]
     ELSE [entity |-> Unmarshal(data), err |-> "none"]


\* ------------------------------------------------- remote coordinator
\* The PipelineDao contract (Insert, Delete, Update, GetDataVersion, Get,
\* SelectAllDataVersion).  Each call yields the set of outcomes it may have:
\* every call may find the coordinator unavailable.

\* an empty remote store
EmptyRemote == [i \in Ids |-> Nil]

\* PipelineDao.Insert(entity)
RemoteInsert(r, e) ==
  {[store |-> r, err |-> "Unavailable"]}
  \cup (IF r[e.id] = Nil
        THEN {[store |-> [r EXCEPT ![e.id] = e], err |-> "none"]}
        ELSE {[store |-> r, err |-> "Exists"]})

\* PipelineDao.Update(entity, version): compare-and-swap on the version
RemoteUpdate(r, e, version) ==
  {[store |-> r, err |-> "Unavailable"]}
  \cup (IF r[e.id] # Nil /\ r[e.id].dataVersion = version
        THEN {[store |-> [r EXCEPT ![e.id] = e], err |-> "none"]}
        ELSE {[store |-> r, err |-> "VersionConflict"]})

\* PipelineDao.Delete(id): NotFound is never returned by a write
RemoteDelete(r, id) ==
  {[store |-> r, err |-> "Unavailable"],
   [store |-> [r EXCEPT ![id] = Nil], err |-> "none"]}

\* PipelineDao.GetDataVersion(id)
RemoteGetDataVersion(r, id) ==
  {[version |-> 0, err |-> "Unavailable"]}
  \cup (IF r[id] = Nil
        THEN {[version |-> 0, err |-> "NotFound"]}
        ELSE {[version |-> r[id].dataVersion, err |-> "none"]})

\* PipelineDao.Get(id).  For an absent id the contract says NotFound, while
\* refreshOne tests the returned entity for nil: a backend may answer either
\* way, so both outcomes are possible.
RemoteGet(r, id) ==
  {[entity |-> Nil, err |-> "Unavailable"]}
  \cup (IF r[id] = Nil
        THEN {[entity |-> Nil, err |-> "NotFound"],
              [entity |-> Nil, err |-> "none"]}
        ELSE {[entity |-> r[id], err |-> "none"]})

\* the manifest of a remote store: one MetadataVersion per entity, by id
RECURSIVE ManifestFrom(_, _)
ManifestFrom(r, i) ==
  IF i > MaxId THEN <<>>
  ELSE (IF r[i] = Nil THEN <<>>
        ELSE <<[id |-> i, version |-> r[i].dataVersion]>>)
       \o ManifestFrom(r, i + 1)

\* PipelineDao.SelectAllDataVersion()
RemoteSelectAllDataVersion(r) ==
  {[standards |-> <<>>, err |-> "Unavailable"],
   [standards |-> ManifestFrom(r, 1), err |-> "none"]}

\* ------------------------------------------------------------ deployment
\* constants.ClusterCoordinatorEtcd / Zookeeper / MySQL
ClusterCoordinatorEtcd == "etcd"
ClusterCoordinatorZookeeper == "zookeeper"
ClusterCoordinatorMySQL == "mysql"

Coordinators ==
  {ClusterCoordinatorEtcd, ClusterCoordinatorZookeeper, ClusterCoordinatorMySQL}

\* config.AppConfig as Initialize reads it: IsCluster() and
\* GetClusterCoordinator(), "" when no coordinator is configured
AppConfig == [cluster : BOOLEAN, coordinator : Coordinators \cup {""}]

\* The package variables of the DAOs before Initialize, every one nil:
\* _local, the three composite DAOs (one flag), _machineDao, _positionDao,
\* _stateDao, _remoteSourceDao, _remoteEndpointDao, _remotePipelineDao.
\* Once set, a DAO is "local" (LocalPositionDao, LocalStateDao) or carries
\* the name of the backend package that implements it.
NoDaos ==
  [local |-> "nil", composite |-> FALSE, machine |-> "nil",
   position |-> "nil", state |-> "nil", remoteSource |-> "nil",
   remoteEndpoint |-> "nil", remotePipeline |-> "nil"]

\* after initializeBoltDB and the three composite DAOs
Opened(d) == [d EXCEPT !.local = "open", !.composite = TRUE]

\* the six assignments of a coordinator's case of the switch
BackendDaos(d, backend) ==
  [d EXCEPT !.machine = backend, !.position = backend, !.state = backend,
            !.remoteSource = backend, !.remoteEndpoint = backend,
            !.remotePipeline = backend]

\* the two assignments of the standalone branch
LocalDaos(d) == [d EXCEPT !.position = "local", !.state = "local"]

\* The branch on IsCluster() and the switch on GetClusterCoordinator(), with
\* o the outcome of the backend package's own Initialize: the DAO variables
\* it leaves and the error Initialize returns.  The etcd case has no
\* statement: it assigns nothing and falls out of the switch.
SelectBackend(d, config, o) ==
  IF ~config.cluster THEN [dao |-> LocalDaos(d), err |-> "none"]
  ELSE IF config.coordinator = ClusterCoordinatorEtcd
    THEN [dao |-> d, err |-> "none"]
  ELSE IF config.coordinator \in {ClusterCoordinatorZookeeper,
                                  ClusterCoordinatorMySQL}
    THEN (IF o # "none" THEN [dao |-> d, err |-> o]
          ELSE [dao |-> BackendDaos(d, config.coordinator), err |-> "none"])
  ELSE [dao |-> d, err |-> "NoCoordinator"]

\* the DAO variables of a node that runs in a cluster
Deployed == BackendDaos(Opened(NoDaos), ClusterCoordinatorZookeeper)

\* --------------------------------------------------- position and state
MaxRec == 1

\* a stored position or run state of a pipeline; 0: no record under the id
Records == 0..MaxRec

NoRecords == [i \in Ids |-> 0]

\* the buckets of a node's bbolt file beside _pipelineBucket, as
\* initializeBoltDB creates them
EmptyFile ==
  [position |-> NoRecords, state |-> NoRecords, source |-> NoRecords,
   endpoint |-> NoRecords]

\* the coordinator's position and state stores, empty
EmptyProgress == [position |-> NoRecords, state |-> NoRecords]

\* ---------------------------------------------------------------- state
VARIABLES
  remote,   \* the coordinator's pipeline store: id -> entity or Nil
  local,    \* per node, the bbolt pipeline bucket: key -> bytes or NoData
  wlock,    \* per node, the goroutine holding bbolt's writer lock, or 0
  proc,     \* per goroutine, the call it is in and that call's locals
  last,     \* the call that returned in the latest step, if one did
  usedIds,  \* ids already handed out to created entities
  ops,      \* calls started so far
  dao,      \* per node, the package's DAO variables
  buckets,  \* per node, the other buckets of the bbolt file: id -> record
  progress  \* the coordinator's position and state stores: id -> record

vars ==
  <<remote, local, wlock, proc, last, usedIds, ops, dao, buckets, progress>>

\* a goroutine that is in no call
Idle ==
  [pc |-> "idle", op |-> "none", id |-> 0, entity |-> Nil, version |-> 0,
   standards |-> <<>>, deletions |-> <<>>, updates |-> <<>>,
   i |-> 0, gets |-> <<>>, tx |-> EmptyBucket]

\* a goroutine of a process that a panic has ended
Dead == [Idle EXCEPT !.pc = "dead"]

\* no call returned in the latest step
NoCall == [p |-> 0, op |-> "none", id |-> 0, err |-> "none", ret |-> 0]

\* the record of the call of goroutine p returning err (and ret)
Returned(p, err, ret) ==
  [p |-> p, op |-> proc[p].op, id |-> proc[p].id, err |-> err, ret |-> ret]

\* the call of goroutine p returns err (and ret)
Finish(p, err, ret) ==
  /\ proc' = [proc EXCEPT ![p] = Idle]
  /\ last' = Returned(p, err, ret)

\* the call of goroutine p goes on, as the record c
Continue(p, c) ==
  /\ proc' = [proc EXCEPT ![p] = c]
  /\ last' = NoCall

\* an unrecovered panic in goroutine p ends the process of its node
Panic(p) ==
  /\ proc' = [q \in Procs |-> IF NodeOf(q) = NodeOf(p) THEN Dead ELSE proc[q]]
  /\ last' = Returned(p, "panic", 0)

\* refreshAll returns err to its caller: RefreshMetadata panics on it, any
\* other caller gets it back
Fail(p, err, ret) ==
  IF proc[p].op = "RefreshMetadata" THEN Panic(p) ELSE Finish(p, err, ret)

\* goroutine p can start a call
Ready(p) == proc[p].pc = "idle" /\ ops < MaxOps

\* bbolt allows one read-write transaction per database at a time
CanWrite(p) == wlock[NodeOf(p)] = 0

\* outcomes of a step inside a bbolt transaction (Put, Delete, commit)
IoOutcomes == {"none", "StorageIO"}

\* every node initialized for the cluster, no position or state stored yet
Clustered ==
  /\ dao = [n \in Nodes |-> Deployed]
  /\ buckets = [n \in Nodes |-> EmptyFile]
  /\ progress = EmptyProgress

\* state after construction: empty buckets on every node (initializeBoltDB),
\* an empty coordinator, every goroutine idle
Init ==
  /\ remote = EmptyRemote
  /\ local = [n \in Nodes |-> EmptyBucket]
  /\ wlock = [n \in Nodes |-> 0]
  /\ proc = [p \in Procs |-> Idle]
  /\ last = NoCall
  /\ usedIds = {}
  /\ ops = 0
  /\ Clustered

\* ------------------------------------------------------- CascadeInsert
\* a commit that publishes nothing
TxCommitDropped(bucket, tx, io) == bucket

\* the transaction's result once the closure has returned nil: the commit
\* publishes the pending bucket, or fails and publishes nothing
TxCommit(bucket, tx, io) == IF io = "none" THEN tx ELSE bucket

\* a write made outside the transaction: the closure's error undoes nothing
TxRollbackLeaked(bucket, tx) == tx

\* the transaction's result when the closure returns an error: bbolt rolls
\* back, and the bucket is what it was, whatever the closure had put
TxRollback(bucket, tx) == bucket

\* The body of the _local.Update closure: Put into the transaction, then
\* _remotePipelineDao.Insert.  An error rolls the transaction back at once;
\* otherwise the transaction stays open until CI_Commit.
CascadeInsert(p, e) ==
  /\ Ready(p)
  /\ e.id \notin usedIds
  /\ CanWrite(p)
  /\ ops' = ops + 1
  /\ LET call == [Idle EXCEPT !.op = "CascadeInsert", !.id = e.id,
                              !.entity = e]
     IN \E io \in IoOutcomes :
       IF io # "none"
       THEN /\ proc' = proc
            /\ last' = [Returned(p, io, 0) EXCEPT !.op = call.op,
                                                  !.id = call.id]
            /\ local' = [local EXCEPT ![NodeOf(p)] = TxRollback(@, @)]
            /\ UNCHANGED <<remote, wlock, usedIds>>
       ELSE \E o \in RemoteInsert(remote, e) :
              /\ remote' = o.store
              /\ IF o.err # "none"
                 THEN /\ proc' = proc
                      /\ last' = [Returned(p, o.err, 0) EXCEPT
                                    !.op = call.op, !.id = call.id]
                      /\ local' = [local EXCEPT ![NodeOf(p)] =
                           TxRollback(@, BucketPut(@, e.id, Marshal(e)))]
                      /\ UNCHANGED <<wlock, usedIds>>
                 ELSE /\ Continue(p, [call EXCEPT
                           !.pc = "ci_commit",
                           !.tx = BucketPut(local[NodeOf(p)], e.id,
                                            Marshal(e))])
                      /\ wlock' = [wlock EXCEPT ![NodeOf(p)] = p]
                      /\ usedIds' = usedIds \cup {e.id}
                      /\ UNCHANGED local
  /\ UNCHANGED <<dao, buckets, progress>>

\* the commit of CascadeInsert's transaction
CI_Commit(p) ==
  /\ proc[p].pc = "ci_commit"
  /\ \E io \in IoOutcomes :
       /\ local' = [local EXCEPT ![NodeOf(p)] = TxCommit(@, proc[p].tx, io)]
       /\ Finish(p, io, 0)
  /\ wlock' = [wlock EXCEPT ![NodeOf(p)] = 0]
  /\ UNCHANGED <<remote, usedIds, ops>>
  /\ UNCHANGED <<dao, buckets, progress>>

\* ------------------------------------------------------- CascadeUpdate
\* the version left as it was read
NextVersionSame(version) == version

\* entity.DataVersion = version + 1
NextVersion(version) == version + 1

\* _remotePipelineDao.GetDataVersion(entity.Id), then the new DataVersion
CascadeUpdate(p, e) ==
  /\ Ready(p)
  /\ ops' = ops + 1
  /\ LET call == [Idle EXCEPT !.op = "CascadeUpdate", !.id = e.id]
     IN \E o \in RemoteGetDataVersion(remote, e.id) :
       IF o.err # "none"
       THEN /\ proc' = proc
            /\ last' = [Returned(p, o.err, 0) EXCEPT !.op = call.op,
                                                     !.id = call.id]
       ELSE /\ o.version < MaxVer
            /\ Continue(p, [call EXCEPT
                 !.pc = "cu_tx", !.version = o.version,
                 !.entity = [e EXCEPT !.dataVersion =
                                        NextVersion(o.version)]])
  /\ UNCHANGED <<remote, local, wlock, usedIds>>
  /\ UNCHANGED <<dao, buckets, progress>>

\* the _local.Update closure of CascadeUpdate: Put into the transaction,
\* then _remotePipelineDao.Update(entity, version)
CU_Tx(p) ==
  /\ proc[p].pc = "cu_tx"
  /\ CanWrite(p)
  /\ \E io \in IoOutcomes :
       IF io # "none"
       THEN /\ Finish(p, io, proc[p].version)
            /\ local' = [local EXCEPT ![NodeOf(p)] = TxRollback(@, @)]
            /\ UNCHANGED <<remote, wlock>>
       ELSE \E o \in RemoteUpdate(remote, proc[p].entity, proc[p].version) :
              /\ remote' = o.store
              /\ IF o.err # "none"
                 THEN /\ Finish(p, o.err, proc[p].version)
                      /\ local' = [local EXCEPT ![NodeOf(p)] =
                           TxRollback(@, BucketPut(@, proc[p].id,
                                                   Marshal(proc[p].entity)))]
                      /\ UNCHANGED wlock
                 ELSE /\ Continue(p, [proc[p] EXCEPT
                           !.pc = "cu_commit",
                           !.tx = BucketPut(local[NodeOf(p)], proc[p].id,
                                            Marshal(proc[p].entity))])
                      /\ wlock' = [wlock EXCEPT ![NodeOf(p)] = p]
                      /\ UNCHANGED local
  /\ UNCHANGED <<usedIds, ops>>
  /\ UNCHANGED <<dao, buckets, progress>>

\* the commit of CascadeUpdate's transaction, and its return value
CU_Commit(p) ==
  /\ proc[p].pc = "cu_commit"
  /\ \E io \in IoOutcomes :
       /\ local' = [local EXCEPT ![NodeOf(p)] = TxCommit(@, proc[p].tx, io)]
       /\ Finish(p, io, IF io = "none" THEN proc[p].entity.dataVersion
                                       ELSE proc[p].version)
  /\ wlock' = [wlock EXCEPT ![NodeOf(p)] = 0]
  /\ UNCHANGED <<remote, usedIds, ops>>
  /\ UNCHANGED <<dao, buckets, progress>>

\* ------------------------------------------------------- CascadeDelete
\* the _local.Update closure of CascadeDelete: Delete in the transaction,
\* then _remotePipelineDao.Delete(id)
CascadeDelete(p, id) ==
  /\ Ready(p)
  /\ CanWrite(p)
  /\ ops' = ops + 1
  /\ LET call == [Idle EXCEPT !.op = "CascadeDelete", !.id = id]
     IN \E io \in IoOutcomes :
       IF io # "none"
       THEN /\ proc' = proc
            /\ last' = [Returned(p, io, 0) EXCEPT !.op = call.op,
                                                  !.id = call.id]
            /\ local' = [local EXCEPT ![NodeOf(p)] = TxRollback(@, @)]
            /\ UNCHANGED <<remote, wlock>>
       ELSE \E o \in RemoteDelete(remote, id) :
              /\ remote' = o.store
              /\ IF o.err # "none"
                 THEN /\ proc' = proc
                      /\ last' = [Returned(p, o.err, 0) EXCEPT
                                    !.op = call.op, !.id = call.id]
                      /\ local' = [local EXCEPT ![NodeOf(p)] =
                           TxRollback(@, BucketDelete(@, id))]
                      /\ UNCHANGED wlock
                 ELSE /\ Continue(p, [call EXCEPT
                           !.pc = "cd_commit",
                           !.tx = BucketDelete(local[NodeOf(p)], id)])
                      /\ wlock' = [wlock EXCEPT ![NodeOf(p)] = p]
                      /\ UNCHANGED local
  /\ UNCHANGED usedIds
  /\ UNCHANGED <<dao, buckets, progress>>

\* the commit of CascadeDelete's transaction
CD_Commit(p) ==
  /\ proc[p].pc = "cd_commit"
  /\ \E io \in IoOutcomes :
       /\ local' = [local EXCEPT ![NodeOf(p)] = TxCommit(@, proc[p].tx, io)]
       /\ Finish(p, io, 0)
  /\ wlock' = [wlock EXCEPT ![NodeOf(p)] = 0]
  /\ UNCHANGED <<remote, usedIds, ops>>
  /\ UNCHANGED <<dao, buckets, progress>>

\* ---------------------------------------------------- Save and Delete
\* the position and state of the deleted pipelines dropped with them
OtherBucketsPurged(file, deleted) ==
  [file EXCEPT !.position = [i \in Ids |-> IF i \in deleted THEN 0 ELSE @[i]],
               !.state = [i \in Ids |-> IF i \in deleted THEN 0 ELSE @[i]]]

\* The other buckets of the file after a committed transaction of Delete,
\* Save or refreshAll that deleted the pipelines `deleted`: the closure
\* opens tx.Bucket(_pipelineBucket) and no other bucket, so the commit
\* leaves the others as they were.
OtherBuckets(file, deleted) == file

\* CompositePipelineDao.Save: one transaction that puts the entity
Save(bucket, e, io) ==
  TxCommit(bucket, BucketPut(bucket, e.id, Marshal(e)), io)

\* CompositePipelineDao.Delete: one transaction that deletes the key
Delete(bucket, id, io) == TxCommit(bucket, BucketDelete(bucket, id), io)

\* ---------------------------------------------------------- refreshOne
\* refreshOne(id, standardVersion): _remotePipelineDao.Get(id)
RefreshOne(p, id, standardVersion) ==
  /\ Ready(p)
  /\ ops' = ops + 1
  /\ LET call == [Idle EXCEPT !.op = "refreshOne", !.id = id,
                              !.version = standardVersion]
     IN \E o \in RemoteGet(remote, id) :
       IF o.err # "none"
       THEN /\ proc' = proc
            /\ last' = [Returned(p, o.err, 0) EXCEPT !.op = call.op,
                                                     !.id = call.id]
       ELSE Continue(p, [call EXCEPT !.pc = "ro_get", !.entity = o.entity])
  /\ UNCHANGED <<remote, local, wlock, usedIds>>
  /\ UNCHANGED <<dao, buckets, progress>>

\* <= for <: an event at the local copy's own version overwrites it
IsStaleLoose(version, standardVersion) == version <= standardVersion

\* version < standardVersion: the local copy is older than the event says
IsStale(version, standardVersion) == version < standardVersion

\* s.Get(id) and the two tests that follow it
RO_Get(p) ==
  /\ proc[p].pc = "ro_get"
  /\ LET g == LocalGet(local[NodeOf(p)], proc[p].id)
         standardEntity == proc[p].entity
     IN IF g.err # "none" THEN Finish(p, g.err, 0)
        ELSE IF standardEntity = Nil
          THEN Continue(p, [proc[p] EXCEPT !.pc = "ro_delete"])
        ELSE IF IsStale(g.entity.dataVersion, proc[p].version)
          THEN Continue(p, [proc[p] EXCEPT !.pc = "ro_save"])
        ELSE Finish(p, "none", 0)
  /\ UNCHANGED <<remote, local, wlock, usedIds, ops>>
  /\ UNCHANGED <<dao, buckets, progress>>

\* return s.Delete(id)
RO_Delete(p) ==
  /\ proc[p].pc = "ro_delete"
  /\ CanWrite(p)
  /\ \E io \in IoOutcomes :
       /\ local' = [local EXCEPT ![NodeOf(p)] = Delete(@, proc[p].id, io)]
       /\ buckets' = [buckets EXCEPT ![NodeOf(p)] =
            OtherBuckets(@, IF io = "none" THEN {proc[p].id} ELSE {})]
       /\ Finish(p, io, 0)
  /\ UNCHANGED <<remote, wlock, usedIds, ops, dao, progress>>

\* return s.Save(standardEntity)
RO_Save(p) ==
  /\ proc[p].pc = "ro_save"
  /\ CanWrite(p)
  /\ \E io \in IoOutcomes :
       /\ local' = [local EXCEPT ![NodeOf(p)] = Save(@, proc[p].entity, io)]
       /\ buckets' = [buckets EXCEPT ![NodeOf(p)] = OtherBuckets(@, {})]
       /\ Finish(p, io, 0)
  /\ UNCHANGED <<remote, wlock, usedIds, ops, dao, progress>>

\* ---------------------------------------------------------- refreshAll
\* the ids of the bucket's keys, in cursor order
Locals(bucket) ==
  LET ks == CursorKeys({k \in Keys : bucket[k] # NoData})
  IN [j \in 1..Len(ks) |-> BytesToUint64(ks[j])]

\* isRemove inverted: the local ids that the manifest does name
DeletionsInverted(locals, standards) ==
  SelectSeq(locals,
            LAMBDA id : \E j \in 1..Len(standards) : standards[j].id = id)

\* the local ids that no entry of the manifest names
Deletions(locals, standards) ==
  SelectSeq(locals,
            LAMBDA id : \A j \in 1..Len(standards) : standards[j].id # id)

\* any local copy counts as fresh, whatever its version
IsFreshAny(entity, standard) == entity # Nil

\* > for >=: a local copy at the manifest's version is fetched again
IsFreshStrict(entity, standard) ==
  entity # Nil /\ entity.dataVersion > standard.version

\* the test that skips a manifest entry: a local copy that is at least as
\* new as the manifest says
IsFresh(entity, standard) ==
  entity # Nil /\ entity.dataVersion >= standard.version

\* bbolt Delete of the deletions, in order
RECURSIVE ApplyDeletions(_, _)
ApplyDeletions(bucket, deletions) ==
  IF deletions = <<>> THEN bucket
  ELSE ApplyDeletions(BucketDelete(bucket, Head(deletions)), Tail(deletions))

\* bbolt Put of the marshalled updates, in order
RECURSIVE ApplyUpdates(_, _)
ApplyUpdates(bucket, updates) ==
  IF updates = <<>> THEN bucket
  ELSE ApplyUpdates(BucketPut(bucket, Head(updates).id,
                              Marshal(Head(updates))),
                    Tail(updates))

\* the deletions and the puts each committed on their own: a failure keeps
\* what was applied before it
RefreshAllTxPartial(bucket, deletions, updates, failAt) ==
  LET nd == Len(deletions)
      done == IF failAt = 0 THEN nd + Len(updates) ELSE failAt - 1
  IN ApplyUpdates(ApplyDeletions(bucket,
                                 SubSeq(deletions, 1,
                                        IF done < nd THEN done ELSE nd)),
                  SubSeq(updates, 1, IF done > nd THEN done - nd ELSE 0))

\* The transaction of refreshAll.  failAt = 0: every Delete and Put and the
\* commit succeed.  failAt = k > 0: the k-th operation of the transaction
\* (the deletions, then the puts, then the commit) fails, and bbolt rolls
\* the transaction back.
RefreshAllTx(bucket, deletions, updates, failAt) ==
  IF failAt = 0
  THEN ApplyUpdates(ApplyDeletions(bucket, deletions), updates)
  ELSE bucket

\* RefreshMetadata: _remotePipelineDao.SelectAllDataVersion(), a panic if it
\* fails, and the call of refreshAll(pipelines), whose error is a panic too
RefreshMetadataCall(p) ==
  /\ proc[p].pc = "idle"
  /\ LET call == [Idle EXCEPT !.op = "RefreshMetadata"]
     IN \E o \in RemoteSelectAllDataVersion(remote) :
       IF o.err # "none"
       THEN /\ proc' = [q \in Procs |->
                          IF NodeOf(q) = NodeOf(p) THEN Dead ELSE proc[q]]
            /\ last' = [Returned(p, "panic", 0) EXCEPT !.op = call.op]
       ELSE Continue(p, [call EXCEPT !.pc = "ra_scan",
                                     !.standards = o.standards])
  /\ UNCHANGED <<remote, local, wlock, usedIds>>
  /\ UNCHANGED <<dao, buckets, progress>>

\* a call of RefreshMetadata, counted among the calls of the run
RefreshMetadata(p) ==
  /\ Ready(p)
  /\ ops' = ops + 1
  /\ RefreshMetadataCall(p)

\* a call of refreshAll(standards) with a manifest of the caller's
RefreshAll(p, standards) ==
  /\ Ready(p)
  /\ ops' = ops + 1
  /\ Continue(p, [Idle EXCEPT !.op = "refreshAll", !.pc = "ra_scan",
                              !.standards = standards])
  /\ UNCHANGED <<remote, local, wlock, usedIds>>
  /\ UNCHANGED <<dao, buckets, progress>>

\* refreshAll's View of the bucket's keys and the deletions it lists
RA_Scan(p) ==
  /\ proc[p].pc = "ra_scan"
  /\ Continue(p, [proc[p] EXCEPT
       !.pc = "ra_loop", !.i = 1,
       !.deletions = Deletions(Locals(local[NodeOf(p)]), proc[p].standards)])
  /\ UNCHANGED <<remote, local, wlock, usedIds, ops>>
  /\ UNCHANGED <<dao, buckets, progress>>

\* one turn of the loop over the manifest: s.Get(standard.Id) and the test
\* that skips the entry
RA_Local(p) ==
  /\ proc[p].pc = "ra_loop"
  /\ proc[p].i <= Len(proc[p].standards)
  /\ LET standard == proc[p].standards[proc[p].i]
         entity == LocalGet(local[NodeOf(p)], standard.id).entity
     IN IF IsFresh(entity, standard)
        THEN Continue(p, [proc[p] EXCEPT !.i = @ + 1])
        ELSE Continue(p, [proc[p] EXCEPT !.pc = "ra_fetch"])
  /\ UNCHANGED <<remote, local, wlock, usedIds, ops>>
  /\ UNCHANGED <<dao, buckets, progress>>

\* _remotePipelineDao.Get(standard.Id) for the entry: an error returns it, a
\* nil entity without an error panics where its Name is read for the log
RA_Fetch(p) ==
  /\ proc[p].pc = "ra_fetch"
  /\ LET standard == proc[p].standards[proc[p].i]
     IN \E o \in RemoteGet(remote, standard.id) :
       IF o.err # "none" THEN Fail(p, o.err, 0)
       ELSE IF o.entity = Nil THEN Panic(p)
       ELSE Continue(p, [proc[p] EXCEPT
              !.pc = "ra_loop", !.i = @ + 1,
              !.gets = Append(@, proc[p].i),
              !.updates = Append(@, o.entity)])
  /\ UNCHANGED <<remote, local, wlock, usedIds, ops>>
  /\ UNCHANGED <<dao, buckets, progress>>

\* the _local.Update of refreshAll, after the loop; ret is the number of
\* deletions and updates of the transaction (what the last log line reports
\* when it commits)
RA_Apply(p) ==
  /\ proc[p].pc = "ra_loop"
  /\ proc[p].i > Len(proc[p].standards)
  /\ CanWrite(p)
  /\ \E failAt \in 0..(Len(proc[p].deletions) + Len(proc[p].updates) + 1) :
       /\ local' = [local EXCEPT ![NodeOf(p)] =
            RefreshAllTx(@, proc[p].deletions, proc[p].updates, failAt)]
       /\ buckets' = [buckets EXCEPT ![NodeOf(p)] =
            OtherBuckets(@, IF failAt = 0
                            THEN {proc[p].deletions[j] :
                                    j \in 1..Len(proc[p].deletions)}
                            ELSE {})]
       /\ IF failAt = 0
          THEN Finish(p, "none",
                      Len(proc[p].deletions) + Len(proc[p].updates))
          ELSE Fail(p, "StorageIO",
                    Len(proc[p].deletions) + Len(proc[p].updates))
  /\ UNCHANGED <<remote, wlock, usedIds, ops, dao, progress>>

\* ---------------------------------------------------------------- system
\* a SyncEvent {id, version} that can be in flight: it announces a version
\* the coordinator's entity has reached (any version once it is deleted)
Announced(id, v) == remote[id] # Nil => v <= remote[id].dataVersion

Next ==
  \E p \in Procs :
    \/ \E e \in Entity : e.dataVersion \in NewVersions /\ CascadeInsert(p, e)
    \/ CI_Commit(p)
    \/ \E e \in Entity : e.dataVersion = 0 /\ CascadeUpdate(p, e)
    \/ CU_Tx(p)
    \/ CU_Commit(p)
    \/ \E id \in Ids : CascadeDelete(p, id)
    \/ CD_Commit(p)
    \/ \E id \in Ids, v \in Versions : Announced(id, v) /\ RefreshOne(p, id, v)
    \/ RO_Get(p)
    \/ RO_Delete(p)
    \/ RO_Save(p)
    \/ RefreshMetadata(p)
    \/ RA_Scan(p)
    \/ RA_Local(p)
    \/ RA_Fetch(p)
    \/ RA_Apply(p)

Spec == Init /\ [][Next]_vars

\* ------------------------------------------- one reconciliation at a time
\* The sequential contract of refreshAll: one goroutine on node 1, nothing
\* else running, from any cache, coordinator store and manifest that the
\* system can hold at the start of a call.

\* coordinator stores
RemoteStores == {r \in [Ids -> Entity \cup {Nil}] :
                   \A i \in Ids : r[i] = Nil \/ r[i].id = i}

\* caches a node can hold beside the store r: a copy is never newer than
\* the coordinator's entity, and may outlive it
BucketsFor(r) ==
  {b \in [Keys -> {Marshal(e) : e \in Entity} \cup {NoData}] :
     \A i \in Ids :
       LET e == LocalGet(b, i).entity
       IN e # Nil => /\ e.id = i
                     /\ r[i] # Nil => e.dataVersion <= r[i].dataVersion}

\* manifests read from the coordinator at or before the store r: each id at
\* most once, in any order, with a version the entity has had
ManifestsFor(r) ==
  {s \in UNION {[1..n -> MetadataVersion] : n \in 0..MaxId} :
     /\ \A j, k \in 1..Len(s) : j # k => s[j].id # s[k].id
     /\ \A j \in 1..Len(s) :
          r[s[j].id] # Nil => s[j].version <= r[s[j].id].dataVersion}

\* node 1 holds any such cache, and one call is still to be made
SeqInit ==
  /\ remote \in RemoteStores
  /\ local \in {[n \in Nodes |-> IF n = 1 THEN b ELSE EmptyBucket] :
                  b \in BucketsFor(remote)}
  /\ wlock = [n \in Nodes |-> 0]
  /\ proc = [p \in Procs |-> Idle]
  /\ last = NoCall
  /\ usedIds = Ids
  /\ ops = MaxOps - 1
  /\ Clustered

\* the steps of one call of refreshAll by goroutine 1
SeqNext ==
  \/ \E s \in ManifestsFor(remote) : RefreshAll(1, s)
  \/ RA_Scan(1)
  \/ RA_Local(1)
  \/ RA_Fetch(1)
  \/ RA_Apply(1)

SeqSpec == SeqInit /\ [][SeqNext]_vars

\* ------------------------------------------------ periodic reconciliation
\* The coordinator's store has stopped changing and every SyncEvent of the
\* changes was lost: node 1 is left with some cache, the other nodes with
\* none, and the only thing that still runs is the full pass, again and
\* again, one goroutine a node.

\* the goroutines that run the pass: goroutine n on node n
Reconcilers == 1..NumNodes

LiveInit ==
  /\ remote \in RemoteStores
  /\ local \in {[n \in Nodes |-> IF n = 1 THEN b ELSE EmptyBucket] :
                  b \in BucketsFor(remote)}
  /\ wlock = [n \in Nodes |-> 0]
  /\ proc = [p \in Procs |-> Idle]
  /\ last = NoCall
  /\ usedIds = Ids
  /\ ops = MaxOps
  /\ Clustered

\* the next pass of goroutine p starts: a call of RefreshMetadata
Reconcile(p) == RefreshMetadataCall(p) /\ UNCHANGED ops

\* a step of the pass of goroutine p
Pass(p) ==
  \/ Reconcile(p)
  \/ RA_Scan(p)
  \/ RA_Local(p)
  \/ RA_Fetch(p)
  \/ RA_Apply(p)

LiveNext == \E p \in Reconcilers : Pass(p)

\* a goroutine that can take a step of its pass takes one in the end
LiveSpec ==
  LiveInit /\ [][LiveNext]_vars /\ \A p \in Reconcilers : WF_vars(Pass(p))

\* ------------------------------------------------------------ the scans
\* GetByParam and SelectList read the pipeline bucket in one View.  The
\* records carry the fields the filters read.

SourceIds == {1, 2}
EndpointIds == {1}
EndpointTypes == {1, 2}

\* constants.PipelineInfoStatusDisable, and the other status
PipelineInfoStatusDisable == "disable"
Statuses == {"enable", PipelineInfoStatusDisable}

\* po.PipelineInfo with the fields of the filters
PipelineInfo ==
  [id : Ids, name : Names, dataVersion : {0}, sourceId : SourceIds,
   endpointId : EndpointIds, endpointType : EndpointTypes, status : Statuses]

\* vo.PipelineInfoParams: "" and 0 are the zero values of a filter not set
PipelineInfoParams ==
  [name : Names \cup {""}, sourceId : SourceIds \cup {0},
   endpointId : EndpointIds \cup {0, 2}, endpointType : EndpointTypes \cup {0},
   enable : BOOLEAN]

\* proto.Marshal and proto.Unmarshal of such a record
MarshalInfo(e) ==
  <<"pb", e.id, e.name, e.dataVersion, e.sourceId, e.endpointId,
    e.endpointType, e.status>>

UnmarshalInfo(b) ==
  [id |-> b[2], name |-> b[3], dataVersion |-> b[4], sourceId |-> b[5],
   endpointId |-> b[6], endpointType |-> b[7], status |-> b[8]]

\* the characters of a name
NameChars(name) ==
  CASE name = "" -> <<>>
    [] name = "p1" -> <<"p", "1">>
    [] name = "p1x" -> <<"p", "1", "x">>

\* strings.Contains(s, substr)
Contains(s, substr) ==
  LET a == NameChars(s)
      b == NameChars(substr)
  IN \E i \in 0..(Len(a) - Len(b)) : SubSeq(a, i + 1, i + Len(b)) = b

\* the loop gives up at the first record that does not unmarshal
RECURSIVE DecodedUntilMalformed(_, _)
DecodedUntilMalformed(bucket, ks) ==
  IF ks = <<>> \/ Malformed(bucket[Head(ks)]) THEN <<>>
  ELSE <<UnmarshalInfo(bucket[Head(ks)])>>
       \o DecodedUntilMalformed(bucket, Tail(ks))

\* the cursor loop of both scans: the records that unmarshal, in key order;
\* a record that does not is passed over
RECURSIVE Decoded(_, _)
Decoded(bucket, ks) ==
  IF ks = <<>> THEN <<>>
  ELSE (IF Malformed(bucket[Head(ks)]) THEN <<>>
        ELSE <<UnmarshalInfo(bucket[Head(ks)])>>)
       \o Decoded(bucket, Tail(ks))

\* the keys of a bucket in cursor order
Cursor(bucket) == CursorKeys({k \in Keys : bucket[k] # NoData})

\* the tests of GetByParam that pass over a record
GetByParamSkips(entity, params) ==
  \/ params.name # "" /\ entity.name # params.name
  \/ params.sourceId # 0 /\ entity.sourceId # params.sourceId
  \/ params.endpointId # 0 /\ entity.endpointId # params.endpointId

\* the tests of SelectList that pass over a record
SelectListSkips(entity, params) ==
  \/ params.name # "" /\ ~Contains(entity.name, params.name)
  \/ params.sourceId # 0 /\ entity.sourceId # params.sourceId
  \/ params.endpointId # 0 /\ entity.endpointId # params.endpointId
  \/ params.endpointType # 0 /\ entity.endpointType # params.endpointType
  \/ params.enable /\ entity.status = PipelineInfoStatusDisable

\* the View of GetByParam: the first record no test passes over
GetByParamView(bucket, params) ==
  LET hits == SelectSeq(Decoded(bucket, Cursor(bucket)),
                        LAMBDA e : ~GetByParamSkips(e, params))
  IN IF hits = <<>> THEN [entity |-> Nil, err |-> "NotFound"]
     ELSE [entity |-> Head(hits), err |-> "none"]

\* the View of SelectList: every record no test passes over
SelectListView(bucket, params) ==
  [list |-> SelectSeq(Decoded(bucket, Cursor(bucket)),
                      LAMBDA e : ~SelectListSkips(e, params)),
   err |-> "none"]

\* a call of GetByParam(params)
GetByParam(p, params) ==
  /\ Ready(p)
  /\ ops' = ops + 1
  /\ Continue(p, [Idle EXCEPT !.op = "GetByParam", !.pc = "gbp_view",
                              !.entity = params])
  /\ UNCHANGED <<remote, local, wlock, usedIds>>
  /\ UNCHANGED <<dao, buckets, progress>>

\* its View, and what it returns
GBP_View(p) ==
  /\ proc[p].pc = "gbp_view"
  /\ LET r == GetByParamView(local[NodeOf(p)], proc[p].entity)
     IN Finish(p, r.err, r.entity)
  /\ UNCHANGED <<remote, local, wlock, usedIds, ops>>
  /\ UNCHANGED <<dao, buckets, progress>>

\* a call of SelectList(params)
SelectList(p, params) ==
  /\ Ready(p)
  /\ ops' = ops + 1
  /\ Continue(p, [Idle EXCEPT !.op = "SelectList", !.pc = "sl_view",
                              !.entity = params])
  /\ UNCHANGED <<remote, local, wlock, usedIds>>
  /\ UNCHANGED <<dao, buckets, progress>>

\* its View, and what it returns
SL_View(p) ==
  /\ proc[p].pc = "sl_view"
  /\ LET r == SelectListView(local[NodeOf(p)], proc[p].entity)
     IN Finish(p, r.err, r.list)
  /\ UNCHANGED <<remote, local, wlock, usedIds, ops>>
  /\ UNCHANGED <<dao, buckets, progress>>

\* pipeline buckets: under each key nothing, a record of that id, or bytes
\* that do not unmarshal
ScanBuckets ==
  {b \in [Keys -> {MarshalInfo(e) : e \in PipelineInfo}
                    \cup {NoData, Corrupt}] :
     \A k \in Keys :
       (b[k] # NoData /\ ~Malformed(b[k]))
         => UnmarshalInfo(b[k]).id = BytesToUint64(k)}

\* node 1 holds any such bucket, and one call is still to be made
ScanInit ==
  /\ remote = EmptyRemote
  /\ local \in {[n \in Nodes |-> IF n = 1 THEN b ELSE EmptyBucket] :
                  b \in ScanBuckets}
  /\ wlock = [n \in Nodes |-> 0]
  /\ proc = [p \in Procs |-> Idle]
  /\ last = NoCall
  /\ usedIds = Ids
  /\ ops = MaxOps - 1
  /\ Clustered

\* one scan by goroutine 1
ScanNext ==
  \/ \E params \in PipelineInfoParams : GetByParam(1, params)
  \/ GBP_View(1)
  \/ \E params \in PipelineInfoParams : SelectList(1, params)
  \/ SL_View(1)

ScanSpec == ScanInit /\ [][ScanNext]_vars

\* ------------------------------------------------------------ Initialize
\* Start of a node: the main goroutine (goroutine n on node n) calls
\* Initialize(config) once, before any other call into the package.

\* outcomes of initializeBoltDB: the store directory cannot be made, the
\* file cannot be opened, a bucket cannot be created
BoltOutcomes == {"none", "StoreDir", "OpenBoltDB", "CreateBucket"}

\* outcomes of zookeeper.Initialize / mysql.Initialize
BackendOutcomes == {"none", "Unavailable"}

\* Initialize(config) up to the switch: initializeBoltDB, whose error is
\* returned, and the three composite DAOs
Initialize(p, config) ==
  /\ Ready(p)
  /\ dao[NodeOf(p)] = NoDaos
  /\ ops' = ops + 1
  /\ LET call == [Idle EXCEPT !.op = "Initialize", !.entity = config]
     IN \E io \in BoltOutcomes :
       IF io # "none"
       THEN /\ proc' = proc
            /\ last' = [Returned(p, io, config) EXCEPT !.op = call.op]
            /\ dao' = [dao EXCEPT ![NodeOf(p)].local =
                         IF io = "CreateBucket" THEN "open" ELSE "nil"]
       ELSE /\ Continue(p, [call EXCEPT !.pc = "init_switch"])
            /\ dao' = [dao EXCEPT ![NodeOf(p)] = Opened(@)]
  /\ UNCHANGED <<remote, local, wlock, usedIds, buckets, progress>>

\* the branch on IsCluster() and the switch, and the return of Initialize
Init_Switch(p) ==
  /\ proc[p].pc = "init_switch"
  /\ \E o \in BackendOutcomes :
       LET r == SelectBackend(dao[NodeOf(p)], proc[p].entity, o)
       IN /\ dao' = [dao EXCEPT ![NodeOf(p)] = r.dao]
          /\ Finish(p, r.err, proc[p].entity)
  /\ UNCHANGED <<remote, local, wlock, usedIds, ops, buckets, progress>>

\* nothing initialized yet on any node
BootInit ==
  /\ remote = EmptyRemote
  /\ local = [n \in Nodes |-> EmptyBucket]
  /\ wlock = [n \in Nodes |-> 0]
  /\ proc = [p \in Procs |-> Idle]
  /\ last = NoCall
  /\ usedIds = {}
  /\ ops = 0
  /\ dao = [n \in Nodes |-> NoDaos]
  /\ buckets = [n \in Nodes |-> EmptyFile]
  /\ progress = EmptyProgress

BootNext ==
  \E p \in Reconcilers :
    \/ \E config \in AppConfig : Initialize(p, config)
    \/ Init_Switch(p)

BootSpec == BootInit /\ [][BootNext]_vars

\* ------------------------------------------- position and state writes
\* PositionDao.Save / StateDao.Save as the replay loop calls them through
\* GetPositionDao() / GetStateDao(): an upsert under the pipeline's id, in
\* the node's own bucket for the local DAO, in the coordinator's store for
\* a backend's DAO.  A nil DAO is a nil interface: the call panics.
SaveRecord(p, kind, op, id, rec) ==
  /\ Ready(p)
  /\ ops' = ops + 1
  /\ LET n == NodeOf(p)
         call == [Idle EXCEPT !.op = op, !.id = id]
     IN IF dao[n][kind] = "nil"
        THEN /\ proc' = [q \in Procs |->
                           IF NodeOf(q) = n THEN Dead ELSE proc[q]]
             /\ last' = [Returned(p, "panic", 0) EXCEPT !.op = call.op,
                                                        !.id = call.id]
             /\ UNCHANGED <<buckets, progress>>
        ELSE /\ proc' = proc
             /\ \E io \in IoOutcomes :
                  /\ last' = [Returned(p, io, 0) EXCEPT !.op = call.op,
                                                        !.id = call.id]
                  /\ IF io # "none" THEN UNCHANGED <<buckets, progress>>
                     ELSE IF dao[n][kind] = "local"
                       THEN /\ buckets' = [buckets EXCEPT ![n][kind][id] = rec]
                            /\ UNCHANGED progress
                     ELSE /\ progress' = [progress EXCEPT ![kind][id] = rec]
                          /\ UNCHANGED buckets
  /\ UNCHANGED <<remote, local, wlock, usedIds, dao>>

\* GetPositionDao().Save(pipelineId, pos)
SavePosition(p, id, rec) == SaveRecord(p, "position", "SavePosition", id, rec)

\* GetStateDao().Save(pipelineId, state)
SaveState(p, id, rec) == SaveRecord(p, "state", "SaveState", id, rec)

\* Reconciliation beside running pipelines.  The coordinator's entities
\* have stopped changing; node 1 is left with some cache, and its file holds
\* what earlier runs left in its other buckets: nothing, or a record under
\* every id.  The pipelines all carry one name: no step here reads it.
OneName(e) == e = Nil \/ e.name = "p1"

Files ==
  {[position |-> f, state |-> f, source |-> f, endpoint |-> f] :
     f \in {NoRecords, [i \in Ids |-> 1]}}

ProgressInit ==
  /\ remote \in {r \in RemoteStores : \A i \in Ids : OneName(r[i])}
  /\ local \in {[n \in Nodes |-> IF n = 1 THEN b ELSE EmptyBucket] :
                  b \in {c \in BucketsFor(remote) :
                          \A i \in Ids : OneName(LocalGet(c, i).entity)}}
  /\ wlock = [n \in Nodes |-> 0]
  /\ proc = [p \in Procs |-> Idle]
  /\ last = NoCall
  /\ usedIds = Ids
  /\ ops = MaxOps - 2
  /\ dao = [n \in Nodes |-> Deployed]
  /\ buckets \in {[n \in Nodes |-> IF n = 1 THEN f ELSE EmptyFile] :
                    f \in Files}
  /\ progress = EmptyProgress

ProgressNext ==
  \E p \in Procs :
    \/ \E id \in Ids, rec \in Records \ {0} : SavePosition(p, id, rec)
    \/ \E id \in Ids, rec \in Records \ {0} : SaveState(p, id, rec)
    \/ \E id \in Ids, v \in Versions : Announced(id, v) /\ RefreshOne(p, id, v)
    \/ RO_Get(p)
    \/ RO_Delete(p)
    \/ RO_Save(p)
    \/ RefreshMetadata(p)
    \/ RA_Scan(p)
    \/ RA_Local(p)
    \/ RA_Fetch(p)
    \/ RA_Apply(p)

ProgressSpec == ProgressInit /\ [][ProgressNext]_vars

\* ---------------------------------------------------------------- claims
\* the entity a node's bucket holds for id, or Nil
Cached(n, id) == LocalGet(local[n], id).entity

\* goroutine p returned from a call of op in this step
ReturnedNow(p, op) == last'.p = p /\ last'.op = op

\* C1: a CascadeUpdate that succeeds works on the remote version v it read
\* at its start: its compare-and-swap leaves the coordinator's entity at
\* v + 1, and its commit leaves the local copy at v + 1 and returns v + 1.
C1_CascadeUpdateVersion ==
  [][\A p \in Procs :
       LET c == proc[p]
           n == NodeOf(p)
       IN /\ (c.pc = "idle" /\ proc'[p].pc = "cu_tx")
               => /\ remote[proc'[p].id] # Nil
                  /\ proc'[p].version = remote[proc'[p].id].dataVersion
          /\ (c.pc = "cu_tx" /\ proc'[p].pc = "cu_commit")
               => /\ remote'[c.id] # Nil
                  /\ remote'[c.id].dataVersion = c.version + 1
          /\ (c.pc = "cu_commit" /\ ReturnedNow(p, "CascadeUpdate")
                /\ last'.err = "none")
               => /\ LocalGet(local'[n], c.id).err = "none"
                  /\ LocalGet(local'[n], c.id).entity.dataVersion
                       = c.version + 1
                  /\ last'.ret = c.version + 1]_vars

\* a CascadeUpdate has returned 1 with the local and the remote copy at 1
C1_Witness ==
  /\ last.op = "CascadeUpdate" /\ last.err = "none" /\ last.ret = 1
  /\ Cached(NodeOf(last.p), last.id) # Nil
  /\ Cached(NodeOf(last.p), last.id).dataVersion = 1
  /\ remote[last.id] # Nil
  /\ remote[last.id].dataVersion = 1

\* C2: a CascadeUpdate whose compare-and-swap meets a remote version other
\* than the one it read returns an error, and no step of the call changes
\* the local bucket or the coordinator's store.
C2_CascadeUpdateConflict ==
  [][\A p \in Procs :
       LET c == proc[p]
       IN /\ (c.pc = "idle"
                /\ (proc'[p].pc = "cu_tx" \/ ReturnedNow(p, "CascadeUpdate")))
               => (local' = local /\ remote' = remote)
          /\ (c.pc = "cu_tx" /\ proc'[p].pc \in {"idle", "cu_commit"}
                /\ (remote[c.id] = Nil
                      \/ remote[c.id].dataVersion # c.version))
               => /\ ReturnedNow(p, "CascadeUpdate")
                  /\ last'.err # "none"
                  /\ local' = local
                  /\ remote' = remote]_vars

\* a CascadeUpdate has lost its compare-and-swap to another writer
C2_Witness ==
  /\ last.op = "CascadeUpdate" /\ last.err = "VersionConflict"
  /\ remote[last.id] # Nil
  /\ remote[last.id].dataVersion > last.ret

\* C3: a CascadeInsert that succeeds has stored the entity it was given in
\* the coordinator, and its commit stores the same entity in the local
\* bucket: Get on either returns that entity.
C3_CascadeInsertBoth ==
  [][\A p \in Procs :
       LET c == proc[p]
           n == NodeOf(p)
       IN /\ (c.pc = "idle" /\ proc'[p].pc = "ci_commit")
               => /\ [entity |-> proc'[p].entity, err |-> "none"]
                       \in RemoteGet(remote', proc'[p].id)
                  /\ \A o \in RemoteGet(remote', proc'[p].id) :
                       o.err = "none" => o.entity = proc'[p].entity
          /\ (c.pc = "ci_commit" /\ ReturnedNow(p, "CascadeInsert")
                /\ last'.err = "none")
               => LocalGet(local'[n], c.id)
                    = [entity |-> c.entity, err |-> "none"]]_vars

\* a CascadeInsert has returned, and both stores hold the same entity for it
C3_Witness ==
  /\ last.op = "CascadeInsert" /\ last.err = "none"
  /\ Cached(NodeOf(last.p), last.id) # Nil
  /\ Cached(NodeOf(last.p), last.id) = remote[last.id]

\* C4: a CascadeInsert whose remote Insert does not store the entity returns
\* an error in the same step, with the local bucket as it was and no
\* transaction left open.
C4_CascadeInsertFailure ==
  [][\A p \in Procs :
       (proc[p].pc = "idle"
          /\ (proc'[p].pc = "ci_commit" \/ ReturnedNow(p, "CascadeInsert"))
          /\ remote' = remote)
         => /\ ReturnedNow(p, "CascadeInsert")
            /\ last'.err # "none"
            /\ local' = local
            /\ wlock' = wlock]_vars

\* a CascadeInsert has failed on an unavailable coordinator, and the node
\* holds nothing for its id
C4_Witness ==
  /\ last.op = "CascadeInsert" /\ last.err = "Unavailable"
  /\ Cached(NodeOf(last.p), last.id) = Nil
  /\ remote[last.id] = Nil

\* C5: a CascadeDelete whose remote Delete fails returns an error with the
\* local bucket as it was; one that succeeds has removed the id from the
\* coordinator by its remote Delete and from the local bucket by its commit.
C5_CascadeDelete ==
  [][\A p \in Procs :
       LET c == proc[p]
           n == NodeOf(p)
       IN /\ (c.pc = "idle" /\ ReturnedNow(p, "CascadeDelete"))
               => (last'.err # "none" /\ local' = local /\ remote' = remote)
          /\ (c.pc = "idle" /\ proc'[p].pc = "cd_commit")
               => remote'[proc'[p].id] = Nil
          /\ (c.pc = "cd_commit" /\ ReturnedNow(p, "CascadeDelete")
                /\ last'.err = "none")
               => BucketGet(local'[n], c.id) = NoData]_vars

\* a CascadeDelete has failed on an unavailable coordinator, and both
\* copies are still there
C5_Witness ==
  /\ last.op = "CascadeDelete" /\ last.err = "Unavailable"
  /\ Cached(NodeOf(last.p), last.id) # Nil
  /\ remote[last.id] # Nil

\* C6: in every reachable state, a node's local copy of an entity that the
\* coordinator also holds has a dataVersion no greater than the
\* coordinator's.
C6_LocalNotNewer ==
  \A n \in Nodes, id \in Ids :
    (Cached(n, id) # Nil /\ remote[id] # Nil)
      => Cached(n, id).dataVersion <= remote[id].dataVersion

\* one node is fresh at version 1 while another still holds version 0
C6_Witness ==
  \E id \in Ids, n, m \in Nodes :
    /\ remote[id] # Nil /\ remote[id].dataVersion = 1
    /\ Cached(n, id) # Nil /\ Cached(n, id).dataVersion = 1
    /\ Cached(m, id) # Nil /\ Cached(m, id).dataVersion = 0

\* the ids a manifest names
ManifestIds(standards) == {standards[j].id : j \in 1..Len(standards)}

\* the version a manifest gives for an id it names
ManifestVersion(standards, id) ==
  (CHOOSE j \in 1..Len(standards) : standards[j].id = id)

\* C7: with nothing else running, a refreshAll that succeeds deletes every
\* local id the manifest lacks, stores the coordinator's entity for every
\* manifest id that was absent locally or older than the manifest says,
\* leaves every other record as it was, and so ends with exactly the
\* manifest's ids.
C7_RefreshAllResult ==
  [][\A p \in Procs :
       (proc[p].pc = "ra_loop" /\ ReturnedNow(p, "refreshAll")
          /\ last'.err = "none")
         => LET st == proc[p].standards
                pre == local[NodeOf(p)]
                post == local'[NodeOf(p)]
            IN /\ \A id \in Ids :
                    LET was == LocalGet(pre, id).entity
                    IN IF id \notin ManifestIds(st)
                       THEN BucketGet(post, id) = NoData
                       ELSE IF was = Nil
                              \/ was.dataVersion
                                   < st[ManifestVersion(st, id)].version
                       THEN /\ remote[id] # Nil
                            /\ BucketGet(post, id) = Marshal(remote[id])
                       ELSE BucketGet(post, id) = BucketGet(pre, id)
               /\ {id \in Ids : BucketGet(post, id) # NoData}
                    = ManifestIds(st)]_vars

\* a refreshAll has committed one deletion and one update
C7_Witness ==
  /\ last.op = "refreshAll" /\ last.err = "none" /\ last.ret = 2
  /\ Cardinality({id \in Ids : Cached(NodeOf(last.p), id) # Nil}) = 1
  /\ \E id \in Ids : Cached(NodeOf(last.p), id) # Nil
                       /\ Cached(NodeOf(last.p), id) = remote[id]

\* C8: with nothing else running, the bucket a successful refreshAll leaves
\* is one on which a second refreshAll with the same manifest lists no
\* deletion, skips every manifest entry (no remote Get, no update), and so
\* commits the bucket unchanged.
C8_RefreshAllIdempotent ==
  [][\A p \in Procs :
       (proc[p].pc = "ra_loop" /\ ReturnedNow(p, "refreshAll")
          /\ last'.err = "none")
         => LET st == proc[p].standards
                post == local'[NodeOf(p)]
                again == Deletions(Locals(post), st)
                refetch == {j \in 1..Len(st) :
                              ~IsFresh(LocalGet(post, st[j].id).entity, st[j])}
            IN /\ again = <<>>
               /\ refetch = {}
               /\ RefreshAllTx(post, again, <<>>, 0) = post]_vars

\* a refreshAll that had work to do has committed
C8_Witness ==
  /\ last.op = "refreshAll" /\ last.err = "none" /\ last.ret >= 1
  /\ \E id \in Ids : Cached(NodeOf(last.p), id) # Nil

\* C9: with nothing else running, refreshAll calls the remote Get only for
\* a manifest entry whose id has no local copy or a local copy older than
\* the entry's version, and at most once for an entry.
C9_RefreshAllFetches ==
  \A p \in Procs :
    LET c == proc[p]
        stale(j) ==
          LET e == LocalGet(local[NodeOf(p)], c.standards[j].id).entity
          IN e = Nil \/ e.dataVersion < c.standards[j].version
    IN /\ \A k \in 1..Len(c.gets) : stale(c.gets[k])
       /\ \A k, m \in 1..Len(c.gets) : k # m => c.gets[k] # c.gets[m]
       /\ c.pc = "ra_fetch"
            => (stale(c.i) /\ \A k \in 1..Len(c.gets) : c.gets[k] # c.i)

\* a refreshAll has skipped a fresh entry and fetched a stale one
C9_Witness ==
  \E p \in Procs :
    /\ proc[p].pc = "ra_loop"
    /\ Len(proc[p].standards) = 2
    /\ proc[p].i = 3
    /\ Len(proc[p].gets) = 1
    /\ Cached(NodeOf(p), proc[p].standards[1].id) # Nil
    /\ Cached(NodeOf(p), proc[p].standards[2].id) # Nil

\* C10: with nothing else running, no step of a refreshAll other than the
\* commit of its transaction changes the local bucket, and a refreshAll
\* that fails returns an error with the bucket as it was before the call.
C10_RefreshAllAtomic ==
  [][\A p \in Procs :
       /\ (proc[p].op = "refreshAll" /\ proc'[p] # proc[p]
             /\ ~(ReturnedNow(p, "refreshAll") /\ last'.err = "none"))
            => local' = local
       /\ (proc[p].op = "refreshAll" /\ ReturnedNow(p, "refreshAll")
             /\ local' # local)
            => last'.err = "none"]_vars

\* a refreshAll with a deletion and an update pending has failed in its
\* transaction, and the id it would have deleted is still there
C10_Witness ==
  /\ last.op = "refreshAll" /\ last.err = "StorageIO" /\ last.ret = 2
  /\ \E id \in Ids : Cached(NodeOf(last.p), id) # Nil /\ remote[id] = Nil

\* C11: a refreshOne whose remote Get fetched the entity, and that finds a
\* local copy at a version L no lower than the event's version v, returns
\* no error at that step, and no step of the call has changed the local
\* bucket.
C11_RefreshOneStale ==
  [][\A p \in Procs :
       LET c == proc[p]
           n == NodeOf(p)
           copy == LocalGet(local[n], c.id)
       IN /\ (c.pc = "idle"
                /\ (proc'[p].pc = "ro_get" \/ ReturnedNow(p, "refreshOne")))
               => local' = local
          /\ (c.pc = "ro_get"
                /\ proc'[p].pc \in {"idle", "ro_delete", "ro_save"}
                /\ c.entity # Nil /\ copy.err = "none" /\ c.version <= copy.entity.dataVersion)
               => /\ ReturnedNow(p, "refreshOne")
                  /\ last'.err = "none"
                  /\ local' = local]_vars

\* a refreshOne has returned no error on a node whose copy is still at
\* version 0 while the coordinator is at 1: its event was at version 0
C11_Witness ==
  /\ last.op = "refreshOne" /\ last.err = "none"
  /\ Cached(NodeOf(last.p), last.id) # Nil
  /\ Cached(NodeOf(last.p), last.id).dataVersion = 0
  /\ remote[last.id] # Nil
  /\ remote[last.id].dataVersion = 1

\* C12: a refreshOne whose remote Get reports the id absent, on a node that
\* holds a local copy of the id, goes on to delete that copy: the call does
\* not return at the Get, its local step chooses the deletion, and the
\* deletion that commits leaves the bucket without the id.
C12_RefreshOneDeletes ==
  [][\A p \in Procs :
       LET c == proc[p]
           n == NodeOf(p)
       IN /\ (c.pc = "idle" /\ ReturnedNow(p, "refreshOne")
                /\ last'.err = "NotFound" /\ Cached(n, last'.id) # Nil)
               => proc'[p].pc = "ro_get"
          /\ (c.pc = "ro_get" /\ proc'[p].pc \in {"idle", "ro_delete", "ro_save"}
                /\ c.entity = Nil /\ Cached(n, c.id) # Nil)
               => proc'[p].pc = "ro_delete"
          /\ (c.pc = "ro_delete" /\ ReturnedNow(p, "refreshOne")
                /\ last'.err = "none")
               => BucketGet(local'[n], c.id) = NoData]_vars

\* the version refreshOne compares with the event's: that of the local
\* copy, or -1 for an id the node holds no copy of
LocalVersion(n, id) ==
  IF Cached(n, id) = Nil THEN -1 ELSE Cached(n, id).dataVersion

\* C13: a refreshOne whose remote Get fetched the entity, on a node whose
\* local version of the id (-1 without a local copy) is below the event's
\* version, chooses the overwrite at its local step, and the overwrite that
\* commits leaves the bucket holding the fetched body for the id.
C13_RefreshOneOverwrites ==
  [][\A p \in Procs :
       LET c == proc[p]
           n == NodeOf(p)
       IN /\ (c.pc = "ro_get" /\ proc'[p].pc \in {"idle", "ro_delete", "ro_save"}
                /\ c.entity # Nil /\ LocalVersion(n, c.id) < c.version)
               => proc'[p].pc = "ro_save"
          /\ (c.pc = "ro_save" /\ ReturnedNow(p, "refreshOne")
                /\ last'.err = "none")
               => LocalGet(local'[n], c.id)
                    = [entity |-> c.entity, err |-> "none"]]_vars

\* C14: the compare-and-swap of a CascadeUpdate succeeds only on the remote
\* version v the call read and leaves the coordinator at v + 1; no other
\* call that read the same v for the id has its own compare-and-swap behind
\* it; every such call still to run meets a version other than v; and the
\* remote dataVersion of an id never goes down and rises only by such a
\* compare-and-swap, so a second success on the same v cannot follow.
C14_CasSerialized ==
  [][/\ \A p \in Procs :
          LET c == proc[p]
          IN (c.pc = "cu_tx" /\ proc'[p].pc = "cu_commit")
               => /\ remote[c.id] # Nil /\ remote'[c.id] # Nil
                  /\ remote[c.id].dataVersion = c.version
                  /\ remote'[c.id].dataVersion = c.version + 1
                  /\ \A q \in Procs \ {p} :
                       (proc[q].op = "CascadeUpdate" /\ proc[q].id = c.id
                          /\ proc[q].version = c.version)
                         => /\ proc[q].pc \in {"cu_tx", "dead"}
                            /\ \A o \in RemoteUpdate(remote', proc[q].entity,
                                                     proc[q].version) :
                                 o.err # "none"
     /\ \A id \in Ids :
          (remote[id] # Nil /\ remote'[id] # Nil
             /\ remote'[id].dataVersion # remote[id].dataVersion)
            => /\ remote'[id].dataVersion = remote[id].dataVersion + 1
               /\ \E p \in Procs :
                    /\ proc[p].pc = "cu_tx" /\ proc'[p].pc = "cu_commit"
                    /\ proc[p].id = id]_vars

\* two calls read version 0 of one id: one has won the compare-and-swap and
\* is committing, the other has just returned with a version conflict
C14_Witness ==
  /\ last.op = "CascadeUpdate" /\ last.err = "VersionConflict"
  /\ last.ret = 0
  /\ \E q \in Procs : /\ proc[q].pc = "cu_commit"
                      /\ proc[q].id = last.id
                      /\ proc[q].version = 0

\* C15: no commit on a node replaces the local copy of an id by a copy with
\* a lower dataVersion, whatever reconciliation and cascade writes of the
\* node interleave.
C15_NoStaleOverwrite ==
  [][\A n \in Nodes, id \in Ids :
       (Cached(n, id) # Nil /\ Cached(n, id)' # Nil)
         => Cached(n, id)'.dataVersion >= Cached(n, id).dataVersion]_vars

\* the cache of node n has exactly the coordinator's ids, each at the
\* coordinator's dataVersion
Converged(n) ==
  \A id \in Ids :
    IF remote[id] = Nil THEN BucketGet(local[n], id) = NoData
    ELSE /\ Cached(n, id) # Nil
         /\ Cached(n, id).dataVersion = remote[id].dataVersion

C17_NoCrash ==
  [][(last'.op \in {"RefreshMetadata", "refreshOne"} /\ last'.err # "none")
       => /\ last'.err # "panic"
          /\ \A q \in Procs :
               NodeOf(q) = NodeOf(last'.p) => proc'[q].pc # "dead"
          /\ local' = local]_vars

\* C18: the commit of refreshAll's transaction removes from the node's
\* local cache no entity that the coordinator holds at that moment,
\* whatever CascadeInsert of the node ran since the manifest was read.
C18_NonDestructive ==
  [][\A p \in Procs :
       (proc[p].pc = "ra_loop" /\ proc'[p].pc = "idle")
         => \A id \in Ids :
              (BucketGet(local[NodeOf(p)], id) # NoData
                 /\ BucketGet(local'[NodeOf(p)], id) = NoData)
                => remote[id] = Nil]_vars

\* the records of a bucket that unmarshal
Stored(bucket) ==
  {UnmarshalInfo(bucket[k]) :
     k \in {j \in Keys : bucket[j] # NoData /\ ~Malformed(bucket[j])}}

\* a record satisfies a filter: its name contains the filter's, its source
\* id, endpoint id and endpoint type are the filter's where the filter sets
\* them, and it is not disabled if the filter asks for enabled records
Satisfies(e, params) ==
  /\ params.name = "" \/ Contains(e.name, params.name)
  /\ params.sourceId = 0 \/ e.sourceId = params.sourceId
  /\ params.endpointId = 0 \/ e.endpointId = params.endpointId
  /\ params.endpointType = 0 \/ e.endpointType = params.endpointType
  /\ params.enable => e.status # PipelineInfoStatusDisable

\* C19: the record GetByParam returns satisfies the filter and is in the
\* list SelectList returns for the same filter on the same bucket, and
\* GetByParam returns NotFound exactly when no record of the bucket
\* satisfies the filter.
C19_SameFilters ==
  [][\A p \in Procs :
       (proc[p].pc = "gbp_view" /\ ReturnedNow(p, "GetByParam"))
         => LET params == proc[p].entity
                bucket == local[NodeOf(p)]
                list == SelectListView(bucket, params).list
            IN /\ last'.err = "none"
                    => /\ Satisfies(last'.ret, params)
                       /\ \E j \in 1..Len(list) : list[j] = last'.ret
               /\ last'.err = "NotFound"
                    <=> \A e \in Stored(bucket) : ~Satisfies(e, params)]_vars

\* a bucket without its records that do not unmarshal
Clean(bucket) ==
  [k \in Keys |-> IF Malformed(bucket[k]) THEN NoData ELSE bucket[k]]

\* C20: whatever records of the bucket do not unmarshal, SelectList returns
\* no error and a list with every record that unmarshals and satisfies the
\* filter; GetByParam returns what it returns on the bucket without those
\* records, and so finds a record it matches that is stored after one that
\* does not unmarshal.
C20_MalformedSkipped ==
  [][\A p \in Procs :
       LET params == proc[p].entity
           bucket == local[NodeOf(p)]
       IN /\ (proc[p].pc = "sl_view" /\ ReturnedNow(p, "SelectList"))
               => /\ last'.err = "none"
                  /\ \A e \in Stored(bucket) :
                       Satisfies(e, params)
                         => \E j \in 1..Len(last'.ret) : last'.ret[j] = e
          /\ (proc[p].pc = "gbp_view" /\ ReturnedNow(p, "GetByParam"))
               => /\ [entity |-> last'.ret, err |-> last'.err]
                       = GetByParamView(Clean(bucket), params)
                  /\ \A j, k \in Keys :
                       (KeyLess(j, k) /\ Malformed(bucket[j])
                          /\ bucket[k] # NoData /\ ~Malformed(bucket[k])
                          /\ ~GetByParamSkips(UnmarshalInfo(bucket[k]), params))
                         => (last'.err = "none"
                               /\ last'.ret \in Stored(bucket)
                               /\ ~GetByParamSkips(last'.ret, params))]_vars

\* SelectList has returned a record that is stored after bytes that do not
\* unmarshal
C20_Witness ==
  /\ last.op = "SelectList" /\ last.err = "none" /\ Len(last.ret) = 1
  /\ \E j, k \in Keys :
       /\ KeyLess(j, k)
       /\ Malformed(local[NodeOf(last.p)][j])
       /\ local[NodeOf(last.p)][k] = MarshalInfo(last.ret[1])

\* the DAO variables that a coordinator backend implements
BackendFields ==
  {"machine", "position", "state", "remoteSource", "remoteEndpoint",
   "remotePipeline"}

\* C21: whenever Initialize returns without error, then in clustered mode
\* the machine, position, state, remote source, remote endpoint and remote
\* pipeline DAOs are all set and all belong to the one backend the
\* configuration names, for each of etcd, zookeeper and mysql; in
\* standalone mode the position and state DAOs are the local ones.
C21_OneBackend ==
  [][\A p \in Procs :
       (ReturnedNow(p, "Initialize") /\ last'.err = "none")
         => LET config == last'.ret
                d == dao'[NodeOf(p)]
            IN IF config.cluster
               THEN /\ config.coordinator \in Coordinators
                    /\ \A f \in BackendFields : d[f] = config.coordinator
               ELSE d.position = "local" /\ d.state = "local"]_vars

\* the calls of reconciliation
ReconcileOps == {"refreshOne", "refreshAll", "RefreshMetadata"}

\* C22: no step of refreshAll or refreshOne, the steps that delete a
\* pipeline from the local cache included, changes a record of the position
\* or state partition, on any node or at the coordinator; of a node's file
\* they write the pipeline bucket alone, so the source and endpoint buckets
\* stay as they are too.
C22_ProgressUntouched ==
  [][\A p \in Procs :
       (\/ /\ proc[p].op \in ReconcileOps
           /\ proc'[p] # proc[p]
           /\ proc'[p].pc # "dead"
        \/ last'.p = p /\ last'.op \in ReconcileOps)
         => buckets' = buckets /\ progress' = progress]_vars

\* a full pass that only deleted, on a node whose file holds position and
\* state records and beside positions stored at the coordinator
C22_Witness ==
  /\ last.op = "RefreshMetadata"
  /\ last.err = "none"
  /\ last.ret > 0
  /\ remote = EmptyRemote
  /\ \E id \in Ids :
       /\ Cached(NodeOf(last.p), id) = Nil
       /\ buckets[NodeOf(last.p)].position[id] # 0
       /\ buckets[NodeOf(last.p)].state[id] # 0
       /\ progress.position[id] # 0

=============================================================================
